---- MODULE Spec2Model ----
(***************************************************************************)
(* A model of the github-onboarding-agent backend:                         *)
(*   - services/github_loader.py : clone_or_update (snapshot acquisition), *)
(*     normalize_github_repo_url, safe_repo_id                             *)
(*   - services/chunker.py       : make_chunks                             *)
(*   - routers/chat.py           : retriever_fn (dedup + rerank)           *)
(*   - routers/ingest.py         : _build_metadata, ingest                 *)
(*   - services/graph.py         : build_graph (retrieve -> answer)        *)
(***************************************************************************)
EXTENDS Integers, Sequences, FiniteSets, TLC

(***************************************************************************)
(* Bounds of the model.                                                    *)
(***************************************************************************)
MaxCalls == 3
MaxCommit == 2
MaxRemoteOps == 1
MaxTextLen == 5
MaxChunkLines == 3
MaxOverlap == 3
MaxCands == 3
NumQueries == 2
MaxPathLen == 4
MaxFiles == 2
MaxChunksPerFile == 2
MaxUrlParts == 4
MaxHits == 2

(***************************************************************************)
(* Snapshot acquisition: github_loader.clone_or_update.                    *)
(*                                                                         *)
(* One snapshot directory dest = repos_dir/repo_id is modelled.  Urls are  *)
(* two normalized URLs with the same safe_repo_id (owner "a_b", repo "c"   *)
(* and owner "a", repo "b_c" both give "a_b_c"), so that the "origin       *)
(* differs, repoint it" branch of the code is exercised.                   *)
(***************************************************************************)
VARIABLES remote, snap, pc, url, branch, target, fb, err, result, pre, ncalls, nremote, faulty

\* make_chunks: its arguments, its locals and its position
VARIABLES ctext, chunk_lines, overlap, lines, cstart, chunk_index, out, cpc

\* retriever_fn: the candidate pool, the query being run, the deduplicated
\* pool, the returned hits and its position
VARIABLES candidates, qi, deduped, rhits, rpc, qresults

\* ingest, from the walk on: the files walked, the chunks, the upserts
\* prepared, the index and its position
VARIABLES files, all_chunks, upserts, store, ipc

\* the ingestion entry point up to the acquisition: the request, the
\* configuration, the normalized URL, the URL clone_or_update was called
\* with, the HTTP status and its position
VARIABLES req_url, has_key, normalized, acquired, status, upc

\* one run of the compiled graph: the state it threads, the nodes of the
\* current step still to run, the nodes of the step that ran, their pending
\* updates, how often each node ran, the hits answer_fn was given, the
\* configuration and its position
VARIABLES gstate, gfront, gran, gupd, nret, nans, answer_saw, openai_key, gpc

acqVars == <<remote, snap, pc, url, branch, target, fb, err, result, pre, ncalls, nremote, faulty>>
chunkVars == <<ctext, chunk_lines, overlap, lines, cstart, chunk_index, out, cpc>>

retrVars == <<candidates, qi, deduped, rhits, rpc, qresults>>

ingVars == <<files, all_chunks, upserts, store, ipc>>

urlVars == <<req_url, has_key, normalized, acquired, status, upc>>

\* a git process on the snapshot other than the one the caller is running
VARIABLES gitproc

lockVars == <<gitproc>>

\* two ingestions: the repo_url of each request, the repo_id it got, and how
\* far each is
VARIABLES id_url, repo_id, idpc

idVars == <<id_url, repo_id, idpc>>

graphVars == <<gstate, gfront, gran, gupd, nret, nans, answer_saw, openai_key, gpc>>

vars == <<acqVars, chunkVars, retrVars, ingVars, urlVars, graphVars, lockVars, idVars>>

\* the variables clone_or_update, make_chunks, retriever_fn, ingest do not touch
nonAcq == <<chunkVars, retrVars, ingVars, urlVars, graphVars, lockVars, idVars>>
nonChunk == <<acqVars, retrVars, ingVars, urlVars, graphVars, lockVars, idVars>>
nonRetr == <<acqVars, chunkVars, ingVars, urlVars, graphVars, lockVars, idVars>>
nonIng == <<acqVars, chunkVars, retrVars, urlVars, graphVars, lockVars, idVars>>
nonUrl == <<acqVars, chunkVars, retrVars, ingVars, graphVars, lockVars, idVars>>
nonGit == <<chunkVars, retrVars, ingVars, urlVars, graphVars, idVars>>
nonId == <<acqVars, chunkVars, retrVars, ingVars, urlVars, graphVars, lockVars>>
nonGraph == <<acqVars, chunkVars, retrVars, ingVars, urlVars, lockVars, idVars>>

Procs == {1, 2}
Urls == {"u1", "u2"}
Branches == {"dev", "main", "master"}
\* the lexicographic order of the branch names
BranchOrder == <<"dev", "main", "master">>
Commits == 1..MaxCommit
NoRefs == [b \in Branches |-> 0]

\* A remote repository: the tip commit of each branch (0: no such branch)
\* and the default branch it advertises ("" when it has no branch).
RemoteConfigs ==
    {r \in [tips : [Branches -> {0, 1}], head : Branches \cup {""}] :
        IF r.tips = NoRefs THEN r.head = "" ELSE r.head # "" /\ r.tips[r.head] # 0}

\* What the second URL serves: a repository with a single branch.
OtherRemote == [tips |-> [b \in Branches |-> IF b = "main" THEN MaxCommit ELSE 0], head |-> "main"]

NoSnapshot ==
    [dir |-> "absent", leftover |-> FALSE, url |-> "", rrefs |-> NoRefs, originHead |-> "",
     heads |-> NoRefs, cur |-> "", head |-> 0, tree |-> 0, lock |-> FALSE]

AcqInit(R) ==
    /\ remote \in {f \in [Urls -> R \cup {OtherRemote}] : f["u1"] \in R /\ f["u2"] = OtherRemote}
    /\ snap = NoSnapshot
    /\ pc = [p \in Procs |-> "idle"]
    /\ url = [p \in Procs |-> ""]
    /\ branch = [p \in Procs |-> ""]
    /\ target = [p \in Procs |-> ""]
    /\ fb = [p \in Procs |-> 0]
    /\ err = [p \in Procs |-> ""]
    /\ result = [p \in Procs |-> 0]
    /\ pre = [p \in Procs |-> NoSnapshot]
    /\ ncalls = 0
    /\ gitproc = "none"
    /\ nremote = 0
    /\ faulty \in BOOLEAN

\* clone_or_update is never called
AcqIdle ==
    /\ remote = [u \in Urls |-> OtherRemote]
    /\ snap = NoSnapshot
    /\ pc = [p \in Procs |-> "idle"]
    /\ url = [p \in Procs |-> ""]
    /\ branch = [p \in Procs |-> ""]
    /\ target = [p \in Procs |-> ""]
    /\ fb = [p \in Procs |-> 0]
    /\ err = [p \in Procs |-> ""]
    /\ result = [p \in Procs |-> 0]
    /\ pre = [p \in Procs |-> NoSnapshot]
    /\ ncalls = 0
    /\ gitproc = "none"
    /\ nremote = 0
    /\ faulty = FALSE

\* The outcomes of one git command: it can always succeed when its own
\* preconditions hold, and can fail for a reason outside the model (network,
\* disk, a killed subprocess) when the run is one with such faults.
Outcomes == IF faulty THEN {TRUE, FALSE} ELSE {TRUE}

Raise(p, e) ==
    /\ pc' = [pc EXCEPT ![p] = "failed"]
    /\ err' = [err EXCEPT ![p] = e]

\* clone_or_update, lines 84-90: normalize, repo_id, dest, os.path.exists(dest)
Begin(p, U, B) ==
    /\ pc[p] \in {"idle", "done", "failed"}
    /\ ncalls < MaxCalls
    /\ ncalls' = ncalls + 1
    /\ \E u \in U, b \in B :
          /\ url' = [url EXCEPT ![p] = u]
          /\ branch' = [branch EXCEPT ![p] = b]
    /\ pc' = [pc EXCEPT ![p] = IF snap.dir = "absent" THEN "clone" ELSE "open"]
    /\ pre' = [pre EXCEPT ![p] = snap]
    /\ target' = [target EXCEPT ![p] = ""]
    /\ fb' = [fb EXCEPT ![p] = 0]
    /\ err' = [err EXCEPT ![p] = ""]
    /\ result' = [result EXCEPT ![p] = 0]
    /\ UNCHANGED <<remote, snap, nremote, faulty, nonAcq>>

\* What a successful git clone of remote r leaves in dest.
Cloned(u, r) ==
    [dir |-> "repo", leftover |-> FALSE, url |-> u, rrefs |-> r.tips, originHead |-> r.head,
     heads |-> [b \in Branches |-> IF b = r.head THEN r.tips[b] ELSE 0],
     cur |-> r.head,
     head |-> IF r.head = "" THEN 0 ELSE r.tips[r.head],
     tree |-> IF r.head = "" THEN 0 ELSE r.tips[r.head],
     lock |-> FALSE]

\* What a git clone that died part-way can leave in dest: nothing (git removed
\* the directory), a directory that is no repository, or a repository with
\* its origin configured and nothing fetched.
CloneLeftovers(u) ==
    { NoSnapshot,
      [NoSnapshot EXCEPT !.dir = "junk", !.leftover = TRUE],
      [NoSnapshot EXCEPT !.dir = "repo", !.leftover = TRUE, !.url = u] }

\* _remove_stale_index_lock, lines 58-64: .git/index.lock is deleted when it
\* exists, whoever wrote it
RemoveStaleIndexLock(s) == [s EXCEPT !.lock = FALSE]

\* line 91: Repo.clone_from(repo_url, dest), then line 107
Clone(p) ==
    /\ pc[p] = "clone"
    /\ IF snap.dir # "absent"
       THEN \* git refuses a destination that exists and is not empty
            /\ Raise(p, "GitCommandError")
            /\ UNCHANGED snap
       ELSE \E ok \in Outcomes :
              IF ok
              THEN /\ snap' = RemoveStaleIndexLock(Cloned(url[p], remote[url[p]]))
                   /\ pc' = [pc EXCEPT ![p] = "fetch"]
                   /\ UNCHANGED err
              ELSE /\ snap' \in CloneLeftovers(url[p])
                   /\ Raise(p, "GitCommandError")
    /\ UNCHANGED <<remote, url, branch, target, fb, result, pre, ncalls, nremote, faulty, nonAcq>>

\* lines 93-107: Repo(dest), make origin point at repo_url
Open(p) ==
    /\ pc[p] = "open"
    /\ IF snap.dir = "junk"
       THEN /\ Raise(p, "InvalidGitRepositoryError")
            /\ UNCHANGED snap
       ELSE /\ snap' = RemoveStaleIndexLock([snap EXCEPT !.url = url[p]])
            /\ pc' = [pc EXCEPT ![p] = "fetch"]
            /\ UNCHANGED err
    /\ UNCHANGED <<remote, url, branch, target, fb, result, pre, ncalls, nremote, faulty, nonAcq>>

\* lines 110-114: repo.remotes.origin.fetch(prune=True)
Fetch(p) ==
    /\ pc[p] = "fetch"
    /\ \E ok \in Outcomes :
          IF ok
          THEN /\ snap' = [snap EXCEPT !.rrefs = remote[snap.url].tips]
               /\ pc' = [pc EXCEPT ![p] = "select"]
               /\ UNCHANGED err
          ELSE /\ Raise(p, "GitCommandError")
               /\ snap' = RemoveStaleIndexLock(snap)
    /\ UNCHANGED <<remote, url, branch, target, fb, result, pre, ncalls, nremote, faulty, nonAcq>>

\* _default_branch, lines 66-81
DefaultBranch(s) ==
    IF s.originHead # "" THEN s.originHead
    ELSE IF s.rrefs["main"] # 0 THEN "main"
    ELSE IF s.rrefs["master"] # 0 THEN "master"
    ELSE "main"

\* lines 117-120: target_branch = (branch or "").strip() or _default_branch(repo),
\* then _remove_stale_index_lock(dest)
Select(p) ==
    /\ pc[p] = "select"
    /\ target' = [target EXCEPT ![p] = IF branch[p] # "" THEN branch[p] ELSE DefaultBranch(snap)]
    /\ snap' = RemoveStaleIndexLock(snap)
    /\ pc' = [pc EXCEPT ![p] = "checkout"]
    /\ UNCHANGED <<remote, url, branch, fb, err, result, pre, ncalls, nremote, faulty, nonAcq>>

\* git checkout b, or git checkout -b b origin/b when there is no local b
\* (lines 122-126 and 135-138): whether it can succeed, and what it leaves.
\* Both write the index, so both fail while .git/index.lock exists.
CanCheckout(s, b) == ~s.lock /\ (s.heads[b] # 0 \/ s.rrefs[b] # 0)

CheckedOut(s, b) ==
    LET c == IF s.heads[b] # 0 THEN s.heads[b] ELSE s.rrefs[b]
    IN  [s EXCEPT !.heads[b] = c, !.cur = b, !.head = c, !.tree = c]

\* git reset --hard origin/b (lines 128 and 139)
CanReset(s, b) == ~s.lock /\ s.rrefs[b] # 0 /\ s.cur # ""

HardReset(s, b) ==
    [s EXCEPT !.heads[s.cur] = s.rrefs[b], !.head = s.rrefs[b], !.tree = s.rrefs[b]]

\* lines 131-133: the next fallback after position i that is not target_branch
Fallbacks == <<"main", "master">>

NextFallback(i, t) ==
    IF i + 1 <= Len(Fallbacks) /\ Fallbacks[i + 1] # t THEN i + 1
    ELSE IF i + 2 <= Len(Fallbacks) /\ Fallbacks[i + 2] # t THEN i + 2
    ELSE Len(Fallbacks) + 1

\* What a failed checkout or reset leaves: the repository as it was, with
\* .git/index.lock left behind when the git process died holding it.
AfterFailure(s, ok) == IF ok THEN {s} ELSE {s, [s EXCEPT !.lock = TRUE]}

\* a GitCommandError inside the try of lines 121-128 or 134-139: go on with the
\* next fallback, or re-raise when none is left (lines 144-145)
Failover(p, i) ==
    LET n == NextFallback(i, target[p])
    IN  IF n <= Len(Fallbacks)
        THEN /\ fb' = [fb EXCEPT ![p] = n]
             /\ pc' = [pc EXCEPT ![p] = "fbcheckout"]
             /\ UNCHANGED err
        ELSE /\ Raise(p, "GitCommandError")
             /\ UNCHANGED fb

\* lines 122-126
Checkout(p) ==
    /\ pc[p] = "checkout"
    /\ \E ok \in Outcomes :
          IF ok /\ CanCheckout(snap, target[p])
          THEN /\ snap' = CheckedOut(snap, target[p])
               /\ pc' = [pc EXCEPT ![p] = "reset"]
               /\ UNCHANGED <<fb, err>>
          ELSE /\ Failover(p, 0)
               /\ snap' \in AfterFailure(snap, ok)
    /\ UNCHANGED <<remote, url, branch, target, result, pre, ncalls, nremote, faulty, nonAcq>>

\* line 128
Reset(p) ==
    /\ pc[p] = "reset"
    /\ \E ok \in Outcomes :
          IF ok /\ CanReset(snap, target[p])
          THEN /\ snap' = HardReset(snap, target[p])
               /\ pc' = [pc EXCEPT ![p] = "return"]
               /\ UNCHANGED <<fb, err>>
          ELSE /\ Failover(p, 0)
               /\ snap' \in AfterFailure(snap, ok)
    /\ UNCHANGED <<remote, url, branch, target, result, pre, ncalls, nremote, faulty, nonAcq>>

\* lines 135-138
FallbackCheckout(p) ==
    /\ pc[p] = "fbcheckout"
    /\ \E ok \in Outcomes :
          IF ok /\ CanCheckout(snap, Fallbacks[fb[p]])
          THEN /\ snap' = CheckedOut(snap, Fallbacks[fb[p]])
               /\ pc' = [pc EXCEPT ![p] = "fbreset"]
               /\ UNCHANGED <<fb, err>>
          ELSE /\ Failover(p, fb[p])
               /\ snap' \in AfterFailure(snap, ok)
    /\ UNCHANGED <<remote, url, branch, target, result, pre, ncalls, nremote, faulty, nonAcq>>

\* lines 139-141
FallbackReset(p) ==
    /\ pc[p] = "fbreset"
    /\ \E ok \in Outcomes :
          IF ok /\ CanReset(snap, Fallbacks[fb[p]])
          THEN /\ snap' = HardReset(snap, Fallbacks[fb[p]])
               /\ target' = [target EXCEPT ![p] = Fallbacks[fb[p]]]
               /\ pc' = [pc EXCEPT ![p] = "return"]
               /\ UNCHANGED <<fb, err>>
          ELSE /\ Failover(p, fb[p])
               /\ snap' \in AfterFailure(snap, ok)
               /\ UNCHANGED target
    /\ UNCHANGED <<remote, url, branch, result, pre, ncalls, nremote, faulty, nonAcq>>

\* lines 147-148: commit_sha = repo.head.commit.hexsha[:12]; return dest, commit_sha
Return(p) ==
    /\ pc[p] = "return"
    /\ result' = [result EXCEPT ![p] = snap.head]
    /\ pc' = [pc EXCEPT ![p] = "done"]
    /\ UNCHANGED <<remote, snap, url, branch, target, fb, err, pre, ncalls, nremote, faulty, nonAcq>>

\* The remote repository changes: a push to a branch, a new branch, a deleted
\* branch (the advertised default branch is never deleted).
RemoteChange ==
    /\ nremote < MaxRemoteOps
    /\ nremote' = nremote + 1
    /\ \E b \in Branches, c \in 0..MaxCommit :
          /\ c # remote["u1"].tips[b]
          /\ c = 0 => remote["u1"].head # b
          /\ remote' = [remote EXCEPT !["u1"].tips[b] = c,
                                      !["u1"].head = IF @ = "" THEN b ELSE @]
    /\ UNCHANGED <<snap, pc, url, branch, target, fb, err, result, pre, ncalls, faulty, nonAcq>>

(* A git process that writes the index of the snapshot while a call of      *)
(* clone_or_update runs: one spawned by another call (chat and ingest run   *)
(* in a thread pool and clone_or_update takes no lock), or one run by hand. *)
(* git creates .git/index.lock when it starts, fails when the file exists,  *)
(* and renames it to .git/index when it ends.                               *)
GitStart ==
    /\ gitproc = "none"
    /\ snap.dir = "repo"
    /\ ~snap.lock
    /\ gitproc' = "running"
    /\ snap' = [snap EXCEPT !.lock = TRUE]
    /\ UNCHANGED <<remote, pc, url, branch, target, fb, err, result, pre, ncalls, nremote, faulty, nonGit>>

GitFinish ==
    /\ gitproc = "running"
    /\ gitproc' = "none"
    /\ snap' = [snap EXCEPT !.lock = FALSE]
    /\ UNCHANGED <<remote, pc, url, branch, target, fb, err, result, pre, ncalls, nremote, faulty, nonGit>>

\* the process is killed: its lock file stays where it is
GitCrash ==
    /\ gitproc = "running"
    /\ gitproc' = "dead"
    /\ UNCHANGED <<snap, remote, pc, url, branch, target, fb, err, result, pre, ncalls, nremote, faulty, nonGit>>

CloneOrUpdate(p, U, B) ==
    \/ Begin(p, U, B)
    \/ Clone(p)
    \/ Open(p)
    \/ Fetch(p)
    \/ Select(p)
    \/ Checkout(p)
    \/ Reset(p)
    \/ FallbackCheckout(p)
    \/ FallbackReset(p)
    \/ Return(p)

(***************************************************************************)
(* Chunker: chunker.make_chunks(path, text, chunk_lines, overlap).          *)
(* A text is a sequence of characters: a letter, a blank, a line break.    *)
(***************************************************************************)
Chars == {"a", " ", "\n"}
Whitespace == {" ", "\n"}

Min(a, b) == IF a <= b THEN a ELSE b
Max(a, b) == IF a >= b THEN a ELSE b

\* the texts of at most n characters
RECURSIVE TextsUpTo(_)
TextsUpTo(n) ==
    IF n = 0 THEN {<<>>}
    ELSE LET T == TextsUpTo(n - 1)
         IN  T \cup {Append(t, c) : t \in {x \in T : Len(x) = n - 1}, c \in Chars}

\* str.splitlines(): the pieces between line breaks; a text that ends with a
\* line break has no empty last line.  acc is the line being read.
RECURSIVE SplitFrom(_, _, _)
SplitFrom(t, i, acc) ==
    IF i > Len(t) THEN (IF acc = <<>> THEN <<>> ELSE <<acc>>)
    ELSE IF t[i] = "\n" THEN <<acc>> \o SplitFrom(t, i + 1, <<>>)
    ELSE SplitFrom(t, i + 1, Append(acc, t[i]))

SplitLines(t) == SplitFrom(t, 1, <<>>)

\* "\n".join(ls)
RECURSIVE JoinLines(_)
JoinLines(ls) ==
    IF ls = <<>> THEN <<>>
    ELSE IF Len(ls) = 1 THEN ls[1]
    ELSE ls[1] \o <<"\n">> \o JoinLines(Tail(ls))

\* str.strip()
RECURSIVE LStrip(_)
LStrip(t) == IF t # <<>> /\ t[1] \in Whitespace THEN LStrip(Tail(t)) ELSE t

RECURSIVE RStrip(_)
RStrip(t) ==
    IF t # <<>> /\ t[Len(t)] \in Whitespace THEN RStrip(SubSeq(t, 1, Len(t) - 1)) ELSE t

Strip(t) == RStrip(LStrip(t))

\* ls[start:end] for 0 <= start: a slice stops at the end of the list
Slice(ls, start, end) == SubSeq(ls, Min(start, Len(ls)) + 1, Min(end, Len(ls)))

\* a step that ignores the overlap
ChunkStepNoOverlap(cl, ov) == Max(1, cl)

\* a step with no floor of one line
ChunkStepZero(cl, ov) == Max(0, cl - ov)

\* line 19: step = max(1, chunk_lines - overlap)
ChunkStep(cl, ov) == Max(1, cl - ov)

\* the window end without the clamp to the file's length
WindowEndUnclamped(n, start, cl) == start + cl

\* line 23: end = min(len(lines), start + chunk_lines)
WindowEnd(n, start, cl) == Min(n, start + cl)

\* line 24: "\n".join(lines[start:end]).strip()
ChunkText(ls, start, end) == Strip(JoinLines(Slice(ls, start, end)))

ChunkIdle ==
    /\ ctext = <<>>
    /\ chunk_lines = 0
    /\ overlap = 0
    /\ lines = <<>>
    /\ cstart = 0
    /\ chunk_index = 0
    /\ out = <<>>
    /\ cpc = "idle"

\* a call of make_chunks with some text, window and overlap
ChunkInit ==
    /\ ctext \in TextsUpTo(MaxTextLen)
    /\ chunk_lines \in 1..MaxChunkLines
    /\ overlap \in 0..MaxOverlap
    /\ lines = <<>>
    /\ cstart = 0
    /\ chunk_index = 0
    /\ out = <<>>
    /\ cpc = "call"

\* lines 13-20: split, return at once when there is no line
ChunkBegin ==
    /\ cpc = "call"
    /\ lines' = SplitLines(ctext)
    /\ cpc' = IF SplitLines(ctext) = <<>> THEN "done" ELSE "loop"
    /\ UNCHANGED <<ctext, chunk_lines, overlap, cstart, chunk_index, out, nonChunk>>

\* lines 22-40: one turn of the for loop over range(0, len(lines), step)
ChunkIter ==
    /\ cpc = "loop"
    /\ cstart < Len(lines)
    /\ LET end == WindowEnd(Len(lines), cstart, chunk_lines)
           chunk_text == ChunkText(lines, cstart, end)
       IN  IF chunk_text = <<>>
           THEN \* continue
                /\ cstart' = cstart + ChunkStep(chunk_lines, overlap)
                /\ UNCHANGED <<out, chunk_index, cpc>>
           ELSE /\ out' = Append(out, [text |-> chunk_text, chunk_index |-> chunk_index,
                                       start_line |-> cstart + 1, end_line |-> end])
                /\ chunk_index' = chunk_index + 1
                /\ IF end >= Len(lines)
                   THEN \* break
                        /\ cpc' = "done"
                        /\ UNCHANGED cstart
                   ELSE /\ cstart' = cstart + ChunkStep(chunk_lines, overlap)
                        /\ UNCHANGED cpc
    /\ UNCHANGED <<ctext, chunk_lines, overlap, lines, nonChunk>>

\* line 42: the range is exhausted, return out
ChunkReturn ==
    /\ cpc = "loop"
    /\ cstart >= Len(lines)
    /\ cpc' = "done"
    /\ UNCHANGED <<ctext, chunk_lines, overlap, lines, cstart, chunk_index, out, nonChunk>>

(***************************************************************************)
(* Retrieval: chat.retriever_fn and chat._score_boost.                     *)
(* A path is the sequence of its "/"-separated segments; a score is in     *)
(* hundredths (0.95 is 95), and so are the boosts.                         *)
(***************************************************************************)
\* md.get("chunk_index") of metadata that has none
None == -1

\* len(queries) is 7 in the code; NumQueries of them are run here.
TopK == 18

RetrPaths == { <<"README.md">>, <<"src", "main.py">>, <<"tests", "test_a.py">> }

\* the fragments the index can return: with a chunk_index, or without one
\* and told apart by their line range only; shape "ok" is metadata as ingest
\* stored it
RetrFragments ==
    { [path |-> p, chunk_index |-> f[1], start_line |-> f[2], end_line |-> f[3], shape |-> "ok"] :
        p \in RetrPaths, f \in { <<0, 1, 60>>, <<None, 1, 60>>, <<None, 51, 110>> } }

\* metadata that is not what ingest stored: the metadata is None ("none"),
\* it has no "path" ("no_path"), or its "path" is a number ("int_path");
\* the path field is a placeholder then
MalformedFragments ==
    { [path |-> <<>>, chunk_index |-> f[2], start_line |-> 1, end_line |-> 60, shape |-> f[1]] :
        f \in { <<"none", None>>, <<"no_path", 0>>, <<"int_path", 0>> } }

RetrScores == {10, 95}

\* a match of the index: {"score": ..., "metadata": {...}}; a match whose
\* score is None has score None here
Matches ==
    { [score |-> sc, metadata |-> md] :
        sc \in RetrScores, md \in RetrFragments \cup MalformedFragments }
    \cup { [score |-> None, metadata |-> md] :
             md \in {f \in RetrFragments : f.path = <<"README.md">> /\ f.chunk_index = 0} }

\* what one query returns: at most n matches, no fragment twice, best first
MatchLists(n) ==
    { l \in UNION { [1..k -> Matches] : k \in 0..n } :
        \A i \in 1..Len(l), j \in 1..Len(l) :
            i < j => l[i].metadata # l[j].metadata /\ l[i].score >= l[j].score }

\* str.lower() of a path segment
Lower(seg) == IF seg = "README.md" THEN "readme.md" ELSE seg

LowerPath(p) == [i \in 1..Len(p) |-> Lower(p[i])]

\* path.startswith(d + "/")
StartsWithDir(p, d) == Len(p) >= 2 /\ p[1] = d

\* path.endswith(name), for the file names of RetrPaths
EndsWithName(p, name) == Len(p) >= 1 /\ p[Len(p)] = name

\* ingest._build_metadata, lines 43-47: the flags stored with a fragment
MetaIsReadme(p) == p # <<>> /\ Lower(p[Len(p)]) \in {"readme.md", "readme.rst", "readme.txt"}
MetaIsDoc(p) == MetaIsReadme(p) \/ StartsWithDir(p, "docs") \/ StartsWithDir(p, "doc")

\* line 120: float(score) raises TypeError for a score that is None
CollectRaises(m) == m.score = None

\* _score_boost, line 56: (md.get("path") or "").lower() raises AttributeError
\* for a path that is a number (other than 0)
ScoreBoostRaises(h) == h.metadata.shape = "int_path"

\* _score_boost, lines 54-86, when it returns; metadata that is None or has
\* no path gives path "" and no flag, so no boost
ScoreBoost(h) ==
    LET path == LowerPath(h.metadata.path)
        raw == h.metadata.path
    IN  h.score
        + (IF StartsWithDir(path, "src") THEN 20 ELSE 0)
        + (IF EndsWithName(path, "__init__.py") THEN 10 ELSE 0)
        + (IF \E d \in {"flask", "app", "backend"} : StartsWithDir(path, d) THEN 5 ELSE 0)
        + (IF MetaIsReadme(raw) \/ EndsWithName(path, "readme.md")
                                \/ EndsWithName(path, "readme.rst") THEN 25 ELSE 0)
        + (IF MetaIsDoc(raw) \/ StartsWithDir(path, "docs")
                             \/ StartsWithDir(path, "doc") THEN 12 ELSE 0)
        + (IF path \in {<<"pyproject.toml">>, <<"setup.cfg">>, <<"setup.py">>} THEN 10 ELSE 0)
        - (IF \E d \in {".devcontainer", ".github", ".circleci", ".gitlab", "devcontainer"} :
                 StartsWithDir(path, d) THEN 10 ELSE 0)
        - (IF \E d \in {"tests", ".repos"} : StartsWithDir(path, d) THEN 5 ELSE 0)

\* md.get("path"): the path, None, or the number
PathKey(md) ==
    [kind |-> IF md.shape \in {"none", "no_path"} THEN "None"
              ELSE IF md.shape = "int_path" THEN "int" ELSE "str",
     path |-> md.path]

\* line 127: k = (md.get("path"), md.get("chunk_index"))
DedupKey(h) == <<PathKey(h.metadata), h.metadata.chunk_index>>

\* lines 123-131: keep the first candidate of each key
RECURSIVE DedupFrom(_, _, _)
DedupFrom(cs, i, seen) ==
    IF i > Len(cs) THEN <<>>
    ELSE IF DedupKey(cs[i]) \in seen THEN DedupFrom(cs, i + 1, seen)
    ELSE <<cs[i]>> \o DedupFrom(cs, i + 1, seen \cup {DedupKey(cs[i])})

\* list.sort(key=_score_boost, reverse=True): stable, highest key first
RECURSIVE InsertDesc(_, _)
InsertDesc(sorted, x) ==
    IF sorted = <<>> THEN <<x>>
    ELSE IF ScoreBoost(sorted[1]) >= ScoreBoost(x)
         THEN <<sorted[1]>> \o InsertDesc(Tail(sorted), x)
         ELSE <<x>> \o sorted

RECURSIVE SortDesc(_)
SortDesc(hs) ==
    IF hs = <<>> THEN <<>>
    ELSE InsertDesc(SortDesc(SubSeq(hs, 1, Len(hs) - 1)), hs[Len(hs)])

RetrIdle ==
    /\ candidates = <<>>
    /\ qi = 0
    /\ deduped = <<>>
    /\ rhits = <<>>
    /\ rpc = "idle"
    /\ qresults = <<>>

\* a call of retriever_fn(namespace, question)
RetrInit ==
    /\ candidates = <<>>
    /\ qi = 1
    /\ deduped = <<>>
    /\ rhits = <<>>
    /\ rpc = "query"
    /\ qresults = <<>>

\* the matches before the first one that line 120 raises on
RECURSIVE Collected(_)
Collected(ms) ==
    IF ms = <<>> \/ CollectRaises(ms[1]) THEN <<>> ELSE <<ms[1]>> \o Collected(Tail(ms))

\* lines 112-120: one query of the index, its matches appended to the pool;
\* qresults keeps what each query returned (res of line 114)
RetrQuery ==
    /\ rpc = "query"
    /\ qi <= NumQueries
    /\ \E ms \in MatchLists(MaxCands - Len(candidates)) :
          /\ qresults' = Append(qresults, ms)
          /\ candidates' = candidates \o Collected(ms)
          /\ IF \E k \in 1..Len(ms) : CollectRaises(ms[k])
             THEN rpc' = "raised" /\ UNCHANGED qi
             ELSE qi' = qi + 1 /\ UNCHANGED rpc
    /\ UNCHANGED <<deduped, rhits, nonRetr>>

\* lines 122-131
RetrDedup ==
    /\ rpc = "query"
    /\ qi > NumQueries
    /\ deduped' = DedupFrom(candidates, 1, {})
    /\ rpc' = "rerank"
    /\ UNCHANGED <<candidates, qi, rhits, qresults, nonRetr>>

\* lines 133-135: the sort calls _score_boost on every entry
RetrRerank ==
    /\ rpc = "rerank"
    /\ IF \E k \in 1..Len(deduped) : ScoreBoostRaises(deduped[k])
       THEN rpc' = "raised" /\ UNCHANGED rhits
       ELSE rhits' = Slice(SortDesc(deduped), 0, TopK) /\ rpc' = "done"
    /\ UNCHANGED <<candidates, qi, deduped, qresults, nonRetr>>

(***************************************************************************)
(* Ingestion: ingest._build_metadata and the upserts of ingest.ingest.     *)
(* A path is a sequence of characters; every file name of the model ends   *)
(* with an allowed extension (".md") that is not written out.              *)
(***************************************************************************)
PathChars == {".", "/", "a"}

RECURSIVE PathsUpTo(_)
PathsUpTo(n) ==
    IF n = 0 THEN {<<>>}
    ELSE LET P == PathsUpTo(n - 1)
         IN  P \cup {Append(q, c) : q \in {x \in P : Len(x) = n - 1}, c \in PathChars}

\* str.split("/")
RECURSIVE SegmentsFrom(_, _, _)
SegmentsFrom(q, i, acc) ==
    IF i > Len(q) THEN <<acc>>
    ELSE IF q[i] = "/" THEN <<acc>> \o SegmentsFrom(q, i + 1, <<>>)
    ELSE SegmentsFrom(q, i + 1, Append(acc, q[i]))

Segments(q) == SegmentsFrom(q, 1, <<>>)

\* "/".join(segs)
RECURSIVE JoinPath(_)
JoinPath(segs) ==
    IF segs = <<>> THEN <<>>
    ELSE IF Len(segs) = 1 THEN segs[1]
    ELSE segs[1] \o <<"/">> \o JoinPath(Tail(segs))

\* github_loader.iter_text_files, lines 184-206: what the walk can emit.  A
\* path relative to the root: directory names that are real names (not empty,
\* not "." or ".."), and a file whose extension os.path.splitext finds, which
\* needs a character other than "." before the extension.
IsWalkerPath(q) ==
    /\ q # <<>>
    /\ LET segs == Segments(q)
       IN  /\ \A k \in 1..Len(segs) : segs[k] # <<>>
           /\ \A k \in 1..(Len(segs) - 1) : segs[k] \notin {<<".">>, <<".", ".">>}
           /\ \E j \in 1..Len(segs[Len(segs)]) : segs[Len(segs)][j] # "."

WalkerPaths == {q \in PathsUpTo(MaxPathLen) : IsWalkerPath(q)}

\* repo_path = repos_dir/repo_id, relative to the working directory like the
\* walker's paths; the walk never enters a directory named like repos_dir.
RepoPath == <<<<".", "r">>, <<"o">>>>

\* the number of leading segments two paths share
RECURSIVE CommonLen(_, _)
CommonLen(x, y) ==
    IF x # <<>> /\ y # <<>> /\ x[1] = y[1] THEN 1 + CommonLen(Tail(x), Tail(y)) ELSE 0

\* os.path.relpath(raw_path, repo_path), both below the working directory
RelPath(q, start) ==
    LET segs == Segments(q)
        n == CommonLen(segs, start)
    IN  JoinPath([k \in 1..(Len(start) - n) |-> <<".", ".">>] \o SubSeq(segs, n + 1, Len(segs)))

\* str.lstrip("./"): leading "." and "/" characters are removed
RECURSIVE LStripDotSlash(_)
LStripDotSlash(q) ==
    IF q # <<>> /\ q[1] \in {".", "/"} THEN LStripDotSlash(Tail(q)) ELSE q

StartsWithDotDot(q) == Len(q) >= 2 /\ q[1] = "." /\ q[2] = "."

\* _build_metadata, lines 29-41 and 49: the stored path of a fragment
StoredPath(repo_path, raw_path) ==
    LET rel == RelPath(raw_path, repo_path)
    IN  LStripDotSlash(IF StartsWithDotDot(rel) THEN raw_path ELSE rel)

\* str(chunk_index)
Str(i) == <<(<<"0", "1", "2", "3", "4", "5", "6", "7", "8", "9">>)[i + 1]>>

\* namespace = repo_id:sha (ingest line 79), of the one ingestion modelled
Namespace == <<"o", ":", "1">>

\* line 102: f"{namespace}:{md['path']}:{md['chunk_index']}"
FragmentId(ns, path, idx) == ns \o <<":">> \o path \o <<":">> \o Str(idx)

\* lines 85-87 with chunker lines 20-37: the chunks of a file, numbered from 0
RECURSIVE ChunksOf(_)
ChunksOf(fs) ==
    IF fs = <<>> THEN <<>>
    ELSE [k \in 1..fs[1].nchunks |-> [path |-> fs[1].path, chunk_index |-> k - 1]]
         \o ChunksOf(Tail(fs))

\* store.upsert: a vector with an id that is in the index replaces it
Upserted(st, batch) ==
    {v \in st : \A k \in 1..Len(batch) : batch[k].id # v.id}
        \cup {batch[k] : k \in {k \in 1..Len(batch) :
                                   \A j \in (k + 1)..Len(batch) : batch[j].id # batch[k].id}}

IngIdle ==
    /\ files = <<>>
    /\ all_chunks = <<>>
    /\ upserts = <<>>
    /\ store = {}
    /\ ipc = "idle"

\* an ingestion after clone_or_update returned: the walk emits some files
\* (no path twice), each with some number of chunks
IngInit ==
    /\ files \in { f \in UNION { [1..k -> [path : WalkerPaths, nchunks : 1..MaxChunksPerFile]] :
                                   k \in 1..MaxFiles } :
                     \A i \in 1..Len(f), j \in 1..Len(f) : i # j => f[i].path # f[j].path }
    /\ all_chunks = <<>>
    /\ upserts = <<>>
    /\ store = {}
    /\ ipc = "walk"

\* lines 84-90
IngestChunk ==
    /\ ipc = "walk"
    /\ all_chunks' = ChunksOf(files)
    /\ ipc' = "prepare"
    /\ UNCHANGED <<files, upserts, store, nonIng>>

\* lines 96-106: one turn of the loop that prepares the upserts
IngestPrepare ==
    /\ ipc = "prepare"
    /\ Len(upserts) < Len(all_chunks)
    /\ LET c == all_chunks[Len(upserts) + 1]
           path == StoredPath(RepoPath, c.path)
       IN  upserts' = Append(upserts,
                [id |-> FragmentId(Namespace, path, c.chunk_index),
                 metadata |-> [path |-> path, chunk_index |-> c.chunk_index],
                 \* the chunk the entry was made from: in the code, c
                 source |-> c])
    /\ UNCHANGED <<files, all_chunks, store, ipc, nonIng>>

\* lines 108-119 (all the upserts of the model fit one batch of 100)
IngestUpsert ==
    /\ ipc = "prepare"
    /\ Len(upserts) = Len(all_chunks)
    /\ store' = Upserted(store, upserts)
    /\ ipc' = "done"
    /\ UNCHANGED <<files, all_chunks, upserts, nonIng>>

(***************************************************************************)
(* The ingestion entry point and github_loader.normalize_github_repo_url.  *)
(* A URL is what urlparse makes of it: a host (netloc) and a path, the     *)
(* path as the list u.path.split("/") gives (minus the leading empty       *)
(* piece).  A path segment is a sequence of pieces of text, so that        *)
(* <<"r", ".git">> is "r.git".                                             *)
(***************************************************************************)
UrlHosts == {"github.com", "WWW.GitHub.com", "gitlab.com"}

UrlSegments ==
    { <<>>, <<"o">>, <<"r">>, <<"r", ".git">>, <<"tree">>, <<"blob">>, <<"issues">> }

Urls4Ingest ==
    [netloc : UrlHosts, parts : UNION { [1..k -> UrlSegments] : k \in 0..MaxUrlParts }]

\* str.lower() of a host
LowerHost(h) == IF h = "WWW.GitHub.com" THEN "www.github.com" ELSE h

\* [p for p in u.path.split("/") if p]
RECURSIVE NonEmpty(_)
NonEmpty(ps) ==
    IF ps = <<>> THEN <<>>
    ELSE IF ps[1] = <<>> THEN NonEmpty(Tail(ps))
    ELSE <<ps[1]>> \o NonEmpty(Tail(ps))

\* repo.replace(".git", "")
RECURSIVE RemoveDotGit(_)
RemoveDotGit(seg) ==
    IF seg = <<>> THEN <<>>
    ELSE IF seg[1] = ".git" THEN RemoveDotGit(Tail(seg))
    ELSE <<seg[1]>> \o RemoveDotGit(Tail(seg))

\* normalize_github_repo_url, lines 24-45: does it raise ValueError?
NormalizeRaises(u) ==
    LET parts == NonEmpty(u.parts)
    IN  \/ LowerHost(u.netloc) \notin {"github.com", "www.github.com"}
        \/ Len(parts) < 2
        \/ Len(parts) > 2 /\ parts[3] \in {<<"tree">>, <<"blob">>}

\* normalize_github_repo_url, lines 38-47: f"https://github.com/{owner}/{repo}.git"
NormalizeUrl(u) ==
    LET parts == NonEmpty(u.parts)
    IN  [netloc |-> "github.com",
         parts |-> <<parts[1], Append(RemoveDotGit(parts[2]), ".git")>>]

NoUrl == [netloc |-> "", parts |-> <<>>]

UrlIdle ==
    /\ req_url = NoUrl
    /\ has_key = FALSE
    /\ normalized = NoUrl
    /\ acquired = NoUrl
    /\ status = 0
    /\ upc = "idle"

\* a request POST /ingest with some repo_url
UrlInit ==
    /\ req_url \in Urls4Ingest
    /\ has_key \in BOOLEAN
    /\ normalized = NoUrl
    /\ acquired = NoUrl
    /\ status = 0
    /\ upc = "start"

\* ingest, lines 63-70
IngestNormalize ==
    /\ upc = "start"
    /\ IF ~has_key
       THEN status' = 500 /\ upc' = "done" /\ UNCHANGED normalized
       ELSE IF NormalizeRaises(req_url)
       THEN status' = 400 /\ upc' = "done" /\ UNCHANGED normalized
       ELSE normalized' = NormalizeUrl(req_url) /\ upc' = "acquire" /\ UNCHANGED status
    /\ UNCHANGED <<req_url, has_key, acquired, nonUrl>>

\* ingest, lines 72-76: clone_or_update(normalized, ...) normalizes again
\* (line 86) and clones or updates the snapshot; it returns or raises
IngestAcquire ==
    /\ upc = "acquire"
    /\ IF NormalizeRaises(normalized)
       THEN status' = 500 /\ upc' = "done" /\ UNCHANGED acquired
       ELSE /\ acquired' = NormalizeUrl(normalized)
            /\ \E ok \in BOOLEAN :
                  IF ok THEN upc' = "index" /\ UNCHANGED status
                        ELSE status' = 500 /\ upc' = "done"
    /\ UNCHANGED <<req_url, has_key, normalized, nonUrl>>

\* ingest, lines 78-119: nothing to index (400), a failure of the embedder or
\* of the index (500), or the response
IngestRespond ==
    /\ upc = "index"
    /\ status' \in {200, 400, 500}
    /\ upc' = "done"
    /\ UNCHANGED <<req_url, has_key, normalized, acquired, nonUrl>>

(***************************************************************************)
(* The repo_id of an ingestion: ingest lines 68 and 78,                    *)
(* safe_repo_id(normalize_github_repo_url(req.repo_url)).  Owner and       *)
(* repository names are sequences of pieces of text, as in the URLs above. *)
(***************************************************************************)
IdOwners == { <<"a">>, <<"a", "_", "b">> }

IdRepos == { <<"c">>, <<"b", "_", "c">>, <<"c", ".git">>, <<"c", ".git", "hub">>, <<"c", "hub">> }

IdUrls == [netloc : UrlHosts, parts : { <<o, r>> : o \in IdOwners, r \in IdRepos }]

\* safe_repo_id, lines 51-56, of a normalized URL (the pattern of line 51
\* matches every normalized URL): owner, repo = group(2).replace(".git", "")
SafeRepoId(n) == n.parts[1] \o <<"_">> \o RemoveDotGit(n.parts[2])

NoId == <<>>

IdIdle ==
    /\ id_url = [i \in 1..2 |-> NoUrl]
    /\ repo_id = [i \in 1..2 |-> NoId]
    /\ idpc = [i \in 1..2 |-> "idle"]

\* two requests POST /ingest
IdInit ==
    /\ id_url \in [1..2 -> IdUrls]
    /\ repo_id = [i \in 1..2 |-> NoId]
    /\ idpc = [i \in 1..2 |-> "start"]

\* ingest, lines 67-70: the URL is rejected
IdReject(i) ==
    /\ idpc[i] = "start"
    /\ NormalizeRaises(id_url[i])
    /\ idpc' = [idpc EXCEPT ![i] = "rejected"]
    /\ UNCHANGED <<id_url, repo_id, nonId>>

\* ingest, lines 67-79: the URL is accepted, repo_id names dest and namespace
IdResolve(i) ==
    /\ idpc[i] = "start"
    /\ ~NormalizeRaises(id_url[i])
    /\ repo_id' = [repo_id EXCEPT ![i] = SafeRepoId(NormalizeUrl(id_url[i]))]
    /\ idpc' = [idpc EXCEPT ![i] = "accepted"]
    /\ UNCHANGED <<id_url, nonId>>

(***************************************************************************)
(* The pipeline: graph.build_graph, run by graph.invoke in chat.chat.      *)
(* The compiled graph runs in steps: the nodes of a step read the state as *)
(* the step found it, their updates are applied when all of them have run, *)
(* and the next step runs the nodes their edges lead to.                   *)
(***************************************************************************)
\* a graph whose entry leads to both nodes at once
GraphEdgesBothAtEntry == { <<"START", "retrieve">>, <<"START", "answer">>, <<"answer", "END">> }

\* build_graph, lines 23-25: set_entry_point and add_edge
GraphEdges == { <<"START", "retrieve">>, <<"retrieve", "answer">>, <<"answer", "END">> }

Successors(ns) == { e[2] : e \in { d \in GraphEdges : d[1] \in ns } } \ {"END"}

GraphPaths == { <<"README.md">>, <<"src", "main.py">>, <<"tests", "test_a.py">> }

\* what retriever_fn can return: a list of hits (their paths stand for them)
HitLists == UNION { [1..k -> GraphPaths] : k \in 0..MaxHits }

NoAnswer == [kind |-> "none", paths |-> <<>>]

\* answer_fn, lines 137-156, when it returns
AnswerFn(question, hits) ==
    IF hits = <<>> THEN [kind |-> "nothing relevant", paths |-> <<>>]
    ELSE IF ~openai_key THEN [kind |-> "top files", paths |-> Slice(hits, 0, 8)]
    ELSE [kind |-> "llm", paths |-> Slice(hits, 0, 14)]

NoUpdate == [has_hits |-> FALSE, hits |-> <<>>, has_answer |-> FALSE, answer |-> NoAnswer]

NoState == [namespace |-> "", question |-> ""] @@ NoUpdate

GraphIdle ==
    /\ gstate = NoState
    /\ gfront = {}
    /\ gran = {}
    /\ gupd = NoUpdate
    /\ nret = 0
    /\ nans = 0
    /\ answer_saw = <<>>
    /\ openai_key = FALSE
    /\ gpc = "idle"

\* chat, line 159: graph.invoke({"namespace": ..., "question": ...})
GraphInit ==
    /\ \E n \in {"ns1", "ns2"}, q \in {"q1", "q2"} :
          gstate = [NoState EXCEPT !.namespace = n, !.question = q]
    /\ gfront = Successors({"START"})
    /\ gran = {}
    /\ gupd = NoUpdate
    /\ nret = 0
    /\ nans = 0
    /\ answer_saw = <<>>
    /\ openai_key \in BOOLEAN
    /\ gpc = "running"

\* retrieve_node, lines 13-15: retriever_fn returns some hits, or raises
RetrieveNode ==
    /\ gpc = "running"
    /\ "retrieve" \in gfront
    /\ nret' = nret + 1
    /\ gfront' = gfront \ {"retrieve"}
    /\ \/ \E hs \in HitLists :
             /\ gupd' = [gupd EXCEPT !.has_hits = TRUE, !.hits = hs]
             /\ gran' = gran \cup {"retrieve"}
             /\ UNCHANGED gpc
       \/ /\ gpc' = "raised"
          /\ UNCHANGED <<gupd, gran>>
    /\ UNCHANGED <<gstate, nans, answer_saw, openai_key, nonGraph>>

\* answer_node, lines 17-19: state["hits"] is a KeyError when no node has
\* stored hits; answer_fn returns, or (the LLM call) raises
AnswerNode ==
    /\ gpc = "running"
    /\ "answer" \in gfront
    /\ nans' = nans + 1
    /\ gfront' = gfront \ {"answer"}
    /\ IF ~gstate.has_hits
       THEN /\ gpc' = "raised"
            /\ UNCHANGED <<gupd, gran, answer_saw>>
       ELSE /\ answer_saw' = gstate.hits
            /\ \/ /\ gupd' = [gupd EXCEPT !.has_answer = TRUE,
                                          !.answer = AnswerFn(gstate.question, gstate.hits)]
                  /\ gran' = gran \cup {"answer"}
                  /\ UNCHANGED gpc
               \/ /\ gstate.hits # <<>> /\ openai_key
                  /\ gpc' = "raised"
                  /\ UNCHANGED <<gupd, gran>>
    /\ UNCHANGED <<gstate, nret, openai_key, nonGraph>>

\* the end of a step: the updates are applied, the edges are followed
GraphStep ==
    /\ gpc = "running"
    /\ gfront = {}
    /\ gstate' = [gstate EXCEPT
                    !.has_hits = @ \/ gupd.has_hits,
                    !.hits = IF gupd.has_hits THEN gupd.hits ELSE @,
                    !.has_answer = @ \/ gupd.has_answer,
                    !.answer = IF gupd.has_answer THEN gupd.answer ELSE @]
    /\ gupd' = NoUpdate
    /\ gfront' = Successors(gran)
    /\ gran' = {}
    /\ gpc' = IF Successors(gran) = {} THEN "END" ELSE "running"
    /\ UNCHANGED <<nret, nans, answer_saw, openai_key, nonGraph>>

(***************************************************************************)
(* Specifications.                                                         *)
(***************************************************************************)
\* the requests of the callers: any URL of the repo_id, any branch or none
Requested == Branches \cup {""}

\* The runs with two concurrent callers are explored for two remotes (one
\* with only master, one with dev and main and default dev) and for requests
\* of no branch or of dev, on the first URL.
ConcRemotes ==
    { [tips |-> [b \in Branches |-> IF b = "master" THEN 1 ELSE 0], head |-> "master"],
      [tips |-> [b \in Branches |-> IF b = "master" THEN 0 ELSE 1], head |-> "dev"] }

ConcRequested == {"", "dev"}

Init == AcqInit(ConcRemotes) /\ ChunkIdle /\ RetrIdle /\ IngIdle /\ UrlIdle /\ GraphIdle /\ IdIdle

Next == (\E p \in Procs : CloneOrUpdate(p, {"u1"}, ConcRequested)) \/ RemoteChange

\* two callers of clone_or_update on the same repo_id
Spec == Init /\ [][Next]_vars

\* one caller and a git process on the same snapshot
InitLock == AcqInit(ConcRemotes) /\ ChunkIdle /\ RetrIdle /\ IngIdle /\ UrlIdle /\ GraphIdle /\ IdIdle

NextLock == CloneOrUpdate(1, {"u1"}, {""}) \/ GitStart \/ GitFinish \/ GitCrash

SpecLock == InitLock /\ [][NextLock]_vars

InitSeq == AcqInit(RemoteConfigs) /\ ChunkIdle /\ RetrIdle /\ IngIdle /\ UrlIdle /\ GraphIdle /\ IdIdle

NextSeq == CloneOrUpdate(1, Urls, Requested) \/ RemoteChange

\* one caller at a time
SpecSeq == InitSeq /\ [][NextSeq]_vars

InitChunk == ChunkInit /\ AcqIdle /\ RetrIdle /\ IngIdle /\ UrlIdle /\ GraphIdle /\ IdIdle

NextChunk == ChunkBegin \/ ChunkIter \/ ChunkReturn

\* make_chunks on every text, window and overlap of the bounds
SpecChunk == InitChunk /\ [][NextChunk]_vars

\* a call of make_chunks goes on while its loop has a turn to take
SpecChunkFair == InitChunk /\ [][NextChunk]_vars /\ WF_vars(NextChunk)

InitRetr == RetrInit /\ AcqIdle /\ ChunkIdle /\ IngIdle /\ UrlIdle /\ GraphIdle /\ IdIdle

NextRetr == RetrQuery \/ RetrDedup \/ RetrRerank

\* retriever_fn on every pool of candidates of the bounds
SpecRetr == InitRetr /\ [][NextRetr]_vars

InitIng == IngInit /\ AcqIdle /\ ChunkIdle /\ RetrIdle /\ UrlIdle /\ GraphIdle /\ IdIdle

NextIng == IngestChunk \/ IngestPrepare \/ IngestUpsert

\* the upserts of one ingestion, for every small set of walked files
SpecIng == InitIng /\ [][NextIng]_vars

InitUrl == UrlInit /\ AcqIdle /\ ChunkIdle /\ RetrIdle /\ IngIdle /\ GraphIdle /\ IdIdle

NextUrl == IngestNormalize \/ IngestAcquire \/ IngestRespond

\* the ingestion entry point on every URL of the bounds
SpecUrl == InitUrl /\ [][NextUrl]_vars

InitId == IdInit /\ AcqIdle /\ ChunkIdle /\ RetrIdle /\ IngIdle /\ UrlIdle /\ GraphIdle

NextId == \E i \in 1..2 : IdReject(i) \/ IdResolve(i)

SpecId == InitId /\ [][NextId]_vars

InitGraph == GraphInit /\ AcqIdle /\ ChunkIdle /\ RetrIdle /\ IngIdle /\ UrlIdle /\ IdIdle

NextGraph == RetrieveNode \/ AnswerNode \/ GraphStep

\* one run of the compiled graph; a run is single-threaded and goes on
\* while it has a step to take
SpecGraph == InitGraph /\ [][NextGraph]_vars /\ WF_vars(NextGraph)

(***************************************************************************)
(* Claims about snapshot acquisition.                                      *)
(***************************************************************************)

\* The call of p has fetched and still has a checkout or a hard reset to run.
Mutating(p) == pc[p] \in {"select", "checkout", "reset", "fbcheckout", "fbreset"}

\* C1: of two concurrent acquisitions of one repo_id only one proceeds: no two
\* calls are at the same time between their first and their last mutating git
\* operation.
C1_OneMutatorPerRepo ==
    \A p \in Procs, q \in Procs : p # q => ~(Mutating(p) /\ Mutating(q))

\* What a reader of the snapshot sees: remote URL, branch, working tree, HEAD.
Observed(s) == <<s.url, s.cur, s.tree, s.head>>

\* C2: an update of an existing snapshot that raises leaves the snapshot's
\* remote URL, checked-out branch, working tree and HEAD commit as they were
\* when the call began.
C2_FailedUpdateChangesNothing ==
    (pc[1] = "failed" /\ pre[1].dir = "repo" /\ ~pre[1].leftover)
        => Observed(snap) = Observed(pre[1])

\* The first branch of BranchOrder from position i on that the remote has.
RECURSIVE FirstRemaining(_, _)
FirstRemaining(tips, i) ==
    IF i > Len(BranchOrder) THEN ""
    ELSE IF tips[BranchOrder[i]] # 0 THEN BranchOrder[i]
    ELSE FirstRemaining(tips, i + 1)

\* The branch resolution of the specification: the requested branch if the
\* remote has it, else the advertised default branch, else main, else master,
\* else the lexicographically first branch; "" when the remote has no branch.
FirstViable(tips, default, requested) ==
    IF requested # "" /\ tips[requested] # 0 THEN requested
    ELSE IF default # "" /\ tips[default] # 0 THEN default
    ELSE IF tips["main"] # 0 THEN "main"
    ELSE IF tips["master"] # 0 THEN "master"
    ELSE FirstRemaining(tips, 1)

\* C3: a call that meets no fault outside git's own answers ends with the
\* first viable candidate checked out, and fails exactly when the remote has
\* no branch (the code has no NoBranchFound: the error it raises when no
\* candidate is left, the GitCommandError of line 145, is taken for it).
\* Stated of the remote as the call's fetch saw it.
C3_FirstViableCandidate ==
    (~faulty /\ pc[1] \in {"done", "failed"} /\ snap.rrefs = remote[snap.url].tips)
        => LET b == FirstViable(snap.rrefs, remote[snap.url].head, branch[1])
           IN  IF b = ""
               THEN pc[1] = "failed" /\ err[1] = "GitCommandError"
               ELSE pc[1] = "done" /\ snap.cur = b

\* C9: a call that begins on a directory left by a failed clone never goes on
\* with it as an existing snapshot (fetch, checkout, reset, return): it clones
\* afresh or fails on opening it.
C9_LeftoverNotReused ==
    \A p \in Procs : pre[p].leftover => pc[p] \in {"clone", "open", "failed"}

(***************************************************************************)
(* Claims about the chunker.                                               *)
(***************************************************************************)

NumLines == Len(lines)

Covered(i) == \E k \in 1..Len(out) : out[k].start_line <= i /\ i <= out[k].end_line

RangesInFile ==
    \A k \in 1..Len(out) :
        1 <= out[k].start_line /\ out[k].start_line <= out[k].end_line
                               /\ out[k].end_line <= NumLines

HasText(l) == \E j \in 1..Len(l) : l[j] \notin Whitespace

\* C6 as claimed: the fragments cover every line of the file and stay inside it.
C6_EveryLineCovered ==
    cpc = "done" => RangesInFile /\ \A i \in 1..NumLines : Covered(i)

\* C6 as amended: the fragments stay inside the file (1 <= start_line <=
\* end_line <= num_lines) and cover every line that has a character other
\* than white space; a line of a window that is blank throughout is dropped
\* with the window.
C6_EveryTextLineCovered ==
    cpc = "done" => RangesInFile /\ \A i \in 1..NumLines : HasText(lines[i]) => Covered(i)

\* a finished call that dropped a blank window after fragments were emitted
C6_Witness ==
    /\ cpc = "done"
    /\ Len(out) >= 2
    /\ \E i \in 1..NumLines : ~Covered(i)

\* C12: the index lock of a git process that is still running is never
\* deleted by clone_or_update: while the process runs its lock file exists.
C12_LiveLockKept == gitproc = "running" => snap.lock

\* ceil(a / b) for b > 0
CeilDiv(a, b) == -((-a) \div b)

Stride == IF chunk_lines - overlap >= 1 THEN chunk_lines - overlap ELSE 1

\* the index (from 0) of the first window whose end reaches the last line
LastWindow == IF NumLines > chunk_lines THEN CeilDiv(NumLines - chunk_lines, Stride) ELSE 0

\* window k holds a line with text
WindowHasText(k) ==
    \E i \in (k * Stride + 1)..Min(NumLines, k * Stride + chunk_lines) : HasText(lines[i])

\* C13 as claimed: the number of fragments is ceil((num_lines - overlap) /
\* stride), and it is zero exactly when the text is empty.
C13_CountIsCeil ==
    cpc = "done" =>
        IF ctext = <<>> THEN Len(out) = 0
        ELSE Len(out) > 0 /\ Len(out) = CeilDiv(NumLines - overlap, Stride)

\* C13 as amended: the windows are those from 0 to the first one whose end
\* reaches the last line, ceil(max(0, num_lines - chunk_lines) / stride) + 1 of
\* them for a text that has a line; there is one fragment for each of them
\* that holds a line with text, so as many fragments as windows when no
\* window is blank, and none exactly when no line has text.  The count is
\* ceil((num_lines - overlap) / stride) when moreover chunk_lines > overlap
\* and num_lines > overlap.
C13_CountIsNonBlankWindows ==
    cpc = "done" =>
        /\ Len(out) = Cardinality({k \in 0..LastWindow : NumLines > 0 /\ WindowHasText(k)})
        /\ (\A i \in 1..NumLines : HasText(lines[i])) =>
               /\ Len(out) = IF NumLines = 0 THEN 0 ELSE LastWindow + 1
               /\ (chunk_lines > overlap /\ NumLines > overlap) =>
                      Len(out) = CeilDiv(NumLines - overlap, Stride)
        /\ Len(out) = 0 <=> \A i \in 1..NumLines : ~HasText(lines[i])

\* a finished call with several fragments and a blank window between them
C13_Witness ==
    /\ cpc = "done"
    /\ Len(out) >= 2
    /\ Len(out) < LastWindow + 1
    /\ overlap >= 1

\* chunk_index counts the fragments from 0 without a gap, start_line grows
\* from fragment to fragment, only the last fragment reaches the last line,
\* and no fragment starts after the first window that reaches the last line
ChunkOrder ==
    /\ \A k \in 1..Len(out) : out[k].chunk_index = k - 1
    /\ \A k \in 1..(Len(out) - 1) :
          /\ out[k].start_line < out[k + 1].start_line
          /\ out[k].end_line < NumLines
    /\ \A k \in 1..Len(out) : out[k].start_line - 1 <= LastWindow * Stride

\* C14: make_chunks returns for every text, window and overlap (overlap >=
\* chunk_lines too), with chunk_index 0, 1, ..., n-1 in emission order,
\* start_line strictly increasing, and nothing emitted after the first window
\* whose end reaches the last line.
C14_TerminatesInOrder == []ChunkOrder /\ <>(cpc = "done")

\* a finished call with overlap >= chunk_lines that dropped a blank window
\* and emitted fragments before and after it
C14_Witness ==
    /\ cpc = "done"
    /\ overlap >= chunk_lines
    /\ Len(out) >= 2
    /\ \E i \in 1..NumLines : ~Covered(i)

(***************************************************************************)
(* Claims about retrieval.                                                 *)
(***************************************************************************)

\* the path-derived boost of a hit: what _score_boost adds to its score
PathBoost(h) == ScoreBoost(h) - h.score

\* C4: in the reranked hits the path-derived boost dominates the score: a hit
\* of a higher boost comes before one of a lower boost whatever their scores,
\* and within equal boost the higher score comes first.
C4_BoostDominatesScore ==
    rpc = "done" =>
        \A i \in 1..Len(rhits), j \in 1..Len(rhits) :
            i < j => \/ PathBoost(rhits[i]) > PathBoost(rhits[j])
                     \/ /\ PathBoost(rhits[i]) = PathBoost(rhits[j])
                        /\ rhits[i].score >= rhits[j].score

\* the key of a fragment as claimed: (path, chunk_index), or (path,
\* start_line, end_line) when there is no chunk_index
FragmentKey(h) ==
    IF h.metadata.chunk_index # None
    THEN <<PathKey(h.metadata), h.metadata.chunk_index>>
    ELSE <<PathKey(h.metadata), h.metadata.start_line, h.metadata.end_line>>

FirstWithKey(k) ==
    candidates[CHOOSE i \in 1..Len(candidates) :
                  /\ FragmentKey(candidates[i]) = k
                  /\ \A j \in 1..(i - 1) : FragmentKey(candidates[j]) # k]

\* C5: the deduplicated pool has exactly one entry for each fragment of the
\* candidate pool, the first-seen one with its score.
C5_OneEntryPerFragment ==
    rpc \in {"rerank", "done"} =>
        /\ \A i \in 1..Len(deduped), j \in 1..Len(deduped) :
              i # j => FragmentKey(deduped[i]) # FragmentKey(deduped[j])
        /\ \A k \in 1..Len(candidates) :
              \E i \in 1..Len(deduped) : deduped[i] = FirstWithKey(FragmentKey(candidates[k]))

(***************************************************************************)
(* Claims about ingestion.                                                 *)
(***************************************************************************)

\* C7: within one ingestion two distinct fragments (another path of the walk
\* or another chunk_index) never get the same storage id, so that every
\* fragment is in the index after the upserts.
C7_DistinctFragmentIds ==
    /\ \A i \in 1..Len(upserts), j \in 1..Len(upserts) :
          upserts[i].source # upserts[j].source => upserts[i].id # upserts[j].id
    /\ ipc = "done" => Cardinality(store) = Len(all_chunks)

(***************************************************************************)
(* Claims about the ingestion entry point.                                 *)
(***************************************************************************)

\* the URL carries a path segment after OWNER/REPO
NotBareRoot(u) == Len(NonEmpty(u.parts)) > 2

\* C10: a URL that is not a bare repository root is rejected: the configured
\* entry point answers it with 400 and never calls clone_or_update for it.
C10_NonRootRejected ==
    (has_key /\ NotBareRoot(req_url)) =>
        /\ acquired = NoUrl
        /\ upc \in {"start", "done"}
        /\ upc = "done" => status = 400

(***************************************************************************)
(* Claims about the pipeline.                                              *)
(***************************************************************************)

RetrieveReturned == nret = 1 /\ gpc # "raised" /\ (gupd.has_hits \/ gstate.has_hits)

GraphOrder ==
    /\ nret <= 1
    /\ nans <= 1
    /\ nans = 1 => nret = 1 /\ gstate.has_hits /\ answer_saw = gstate.hits
    /\ gpc = "END" => nret = 1 /\ nans = 1 /\ gstate.has_answer

\* C8: in every run retrieve runs once and has stored its hits before answer
\* starts, answer runs once on exactly those hits, neither runs again, and a
\* run whose retrieve returned any list of hits (an empty one too) goes on to
\* answer and then ends.
C8_RetrieveThenAnswer ==
    /\ []GraphOrder
    /\ [](RetrieveReturned => <>(nans = 1))
    /\ [](nans = 1 => <>(gpc \in {"END", "raised"}))

\* a run over zero hits that reached the end
C8_Witness ==
    /\ gpc = "END"
    /\ nret = 1 /\ nans = 1
    /\ gstate.hits = <<>>
    /\ gstate.answer.kind = "nothing relevant"

(***************************************************************************)
(* Claims about retrieval over malformed matches.                          *)
(***************************************************************************)

\* C11: retrieval never raises on a malformed match (metadata missing or
\* None, no path, no chunk_index, no score, a path that is not a string): it
\* returns a hit list, in which such a match has the default boost, none.
C11_MalformedNeverRaises ==
    /\ rpc # "raised"
    /\ rpc = "done" =>
          \A i \in 1..Len(rhits) : rhits[i].metadata.shape # "ok" => PathBoost(rhits[i]) = 0

\* the per-query results appended one after the other (lines 112-120)
RECURSIVE Merged(_)
Merged(qs) == IF qs = <<>> THEN <<>> ELSE qs[1] \o Merged(Tail(qs))

\* what retriever_fn returns for a pool: lines 122-135
Reranked(pool) == Slice(SortDesc(DedupFrom(pool, 1, {})), 0, TopK)

MergeOrders(n) == { f \in [1..n -> 1..n] : \A i \in 1..n : \E j \in 1..n : f[j] = i }

\* the (path, chunk_index, score) of each hit, in order
HitKeys(hs) ==
    [i \in 1..Len(hs) |-> <<PathKey(hs[i].metadata), hs[i].metadata.chunk_index, hs[i].score>>]

\* C15: the returned hits do not depend on the order in which the results of
\* the queries are merged: merging them in any other order gives the same
\* sequence of (path, chunk_index, score).
C15_MergeOrderIndependent ==
    rpc = "done" =>
        \A f \in MergeOrders(Len(qresults)) :
            HitKeys(Reranked(Merged([i \in 1..Len(qresults) |-> qresults[f[i]]]))) = HitKeys(rhits)

(***************************************************************************)
(* Claims about repo_id.                                                   *)
(***************************************************************************)

\* the repository a URL names: its owner and its name, a ".git" at the end
\* of the name not counted
RepoNamed(u) ==
    LET r == u.parts[2]
    IN  <<u.parts[1], IF r[Len(r)] = ".git" THEN SubSeq(r, 1, Len(r) - 1) ELSE r>>

\* C16: two accepted URLs that name different repositories never get the
\* same repo_id.
C16_RepoIdInjective ==
    (idpc[1] = "accepted" /\ idpc[2] = "accepted" /\ RepoNamed(id_url[1]) # RepoNamed(id_url[2]))
        => repo_id[1] # repo_id[2]

====
